---- MODULE Spec2Model ----
(***************************************************************************)
(* Model of ez-cmd: the Config store (src/ez_cmd/config.py) and the CLI    *)
(* verbs that drive it (src/ez_cmd/cli.py).                                *)
(*                                                                         *)
(* A "cfg" record is one Config object together with the backing file:     *)
(*   commands : name -> sequence of command strings  (self.commands)       *)
(*   aliases  : alias -> primary name                (self.aliases)        *)
(*   shared   : pairs of command names bound to one and the same Python    *)
(*              list object (a list reached under two keys)                *)
(*   file     : the content of config.json                                 *)
(*   raised   : the exception that escaped the call, "" when none did      *)
(*   writes   : number of write_text calls made by the running call        *)
(*   ret      : the Python return value of the call ("True","False","None")*)
(*   exit     : the exit code of the process (0 unless sys.exit(1) ran)    *)
(*                                                                         *)
(* run is the execution of a saved sequence by one invocation of the tool, *)
(* procs the invocations of the tool that race on the file.                *)
(***************************************************************************)
EXTENDS Integers, Sequences, FiniteSets, TLC

VARIABLES commands, aliases, shared, file, last, run, procs

vars == <<commands, aliases, shared, file, last, run, procs>>

----------------------------------------------------------------------------
(* Bounds and input sets *)

MaxSeqLen == 2

RESERVED_COMMANDS ==
    {"save", "list", "update", "delete", "append", "pop", "alias",
     "rename", "ls", "a", "d", "r", "s", "u", "replay"}

\* Names given to the Config methods.  "copy" is a CLI verb that is not in
\* RESERVED_COMMANDS, so the store treats it like any other name.
UserNames == {"greet", "hi", "copy"}
\* Names typed on the command line: two that the verbs accept and one
\* reserved word
ReservedInputs == {"ls"}
Names == {"greet", "copy"} \cup ReservedInputs
\* Shell command lines
Cmds == {"x", "y"}

----------------------------------------------------------------------------
(* Python dict helpers *)

EmptyMap == [k \in {} |-> <<>>]

Put(m, k, v) == [x \in (DOMAIN m) \cup {k} |-> IF x = k THEN v ELSE m[x]]

Del(m, k) == [x \in (DOMAIN m) \ {k} |-> m[x]]

\* The keys of cfg.commands that hold the list object stored under k
Sharers(cfg, k) ==
    {n \in DOMAIN cfg.commands : n = k \/ {n, k} \in cfg.shared}

\* self.commands[k] = <a new list>: k is bound to an object of its own
Bind(cfg, k, seq) ==
    [cfg EXCEPT !.commands = Put(@, k, seq),
                !.shared = {p \in @ : k \notin p}]

\* del self.commands[k]
Unbind(cfg, k) ==
    [cfg EXCEPT !.commands = Del(@, k),
                !.shared = {p \in @ : k \notin p}]

\* self.commands[new] = self.commands.pop(old): the object moves to new
Rebind(cfg, old, new) ==
    [cfg EXCEPT !.commands = Put(Del(@, old), new, cfg.commands[old]),
                !.shared = {IF old \in p THEN (p \ {old}) \cup {new} ELSE p :
                              p \in {q \in @ : new \notin q}}]

\* self.commands[k].append(..) / .pop(): the list object changes in place,
\* under every key that holds it
MutateList(cfg, k, seq) ==
    [cfg EXCEPT !.commands =
        [n \in DOMAIN @ |-> IF n \in Sharers(cfg, k) THEN seq ELSE @[n]]]

----------------------------------------------------------------------------
(* ConfigFileManager *)

\* The content of config.json is one of
\*   [kind |-> "absent"]               no such file
\*   [kind |-> "text"]                 text that json.loads rejects
\*   [kind |-> "json", value |-> v]    a JSON value v
\* and a JSON value is [obj |-> key -> value], [list |-> sequence of strings]
\* or [str |-> string].

\* json.dumps of the two dicts: every command value is written as a JSON list
save_data(cmds, als) ==
    [kind |-> "json",
     value |-> [obj |->
        [commands |-> [obj |-> [n \in DOMAIN cmds |-> [list |-> cmds[n]]]],
         aliases  |-> [obj |-> [n \in DOMAIN als |-> [str |-> als[n]]]]]]]

Raise(exception) ==
    [raised |-> exception, commands |-> EmptyMap, aliases |-> EmptyMap]

\* variant: entries in the legacy string shape are dropped
load_data_droplegacy(content) ==
    IF content.kind = "absent" THEN Raise("FileNotFoundError")
    ELSE IF content.kind = "text" THEN Raise("")
    ELSE IF "obj" \notin DOMAIN content.value THEN Raise("AttributeError")
    ELSE LET data == content.value.obj
             cmds == IF "commands" \in DOMAIN data THEN data.commands
                     ELSE [obj |-> EmptyMap]
             als  == IF "aliases" \in DOMAIN data THEN data.aliases
                     ELSE [obj |-> EmptyMap]
         IN  IF "obj" \notin DOMAIN cmds THEN Raise("AttributeError")
             ELSE [raised   |-> "",
                   commands |-> [n \in {m \in DOMAIN cmds.obj :
                                          "list" \in DOMAIN cmds.obj[m]} |->
                                    cmds.obj[n].list],
                   aliases  |-> [n \in DOMAIN als.obj |-> als.obj[n].str]]

\* read_text and json.loads, data.get with {} defaults, then string values
\* (legacy shape) become one-element lists; only JSONDecodeError is caught
load_data(content) ==
    IF content.kind = "absent" THEN Raise("FileNotFoundError")
    ELSE IF content.kind = "text" THEN Raise("")
    ELSE IF "obj" \notin DOMAIN content.value THEN Raise("AttributeError")
    ELSE LET data == content.value.obj
             cmds == IF "commands" \in DOMAIN data THEN data.commands
                     ELSE [obj |-> EmptyMap]
             als  == IF "aliases" \in DOMAIN data THEN data.aliases
                     ELSE [obj |-> EmptyMap]
         IN  IF "obj" \notin DOMAIN cmds THEN Raise("AttributeError")
             ELSE [raised   |-> "",
                   commands |-> [n \in DOMAIN cmds.obj |->
                                    IF "str" \in DOMAIN cmds.obj[n]
                                    THEN <<cmds.obj[n].str>>
                                    ELSE cmds.obj[n].list],
                   aliases  |-> [n \in DOMAIN als.obj |-> als.obj[n].str]]

\* the file after ensure_config_exists
ensure_config_exists(content) ==
    IF content.kind = "absent" THEN save_data(EmptyMap, EmptyMap) ELSE content

----------------------------------------------------------------------------
(* CommandValidator *)

is_valid_new_name(name, cmds, als) ==
    /\ name \notin RESERVED_COMMANDS
    /\ name \notin DOMAIN cmds
    /\ name \notin DOMAIN als

is_valid_existing_name(name, cmds) == name \in DOMAIN cmds

----------------------------------------------------------------------------
(* Config *)

\* Config.__init__: create the file if there is none, then load it into a
\* fresh object
Config(doc) ==
    LET content == ensure_config_exists(doc)
        loaded == load_data(content)
    IN
    [commands |-> loaded.commands,
     aliases  |-> loaded.aliases,
     shared   |-> {},
     file     |-> content,
     writes   |-> IF doc.kind = "absent" THEN 1 ELSE 0,
     ret      |-> "None",
     exit     |-> 0,
     raised   |-> loaded.raised]

save(cfg) ==
    [cfg EXCEPT !.file = save_data(cfg.commands, cfg.aliases),
                !.writes = @ + 1]

get_primary_name(cfg, name) ==
    IF name \in DOMAIN cfg.aliases THEN cfg.aliases[name] ELSE name

get_all_aliases(cfg, primary_name) ==
    {n \in DOMAIN cfg.aliases : cfg.aliases[n] = primary_name}

\* variant: the cascade is forgotten
remove_command_aliases_none(cfg, primary_name) == cfg

\* variant: the cascade clears the whole aliases map
remove_command_aliases_all(cfg, primary_name) ==
    [cfg EXCEPT !.aliases = [n \in {} |-> cfg.aliases[n]]]

remove_command_aliases(cfg, primary_name) ==
    [cfg EXCEPT !.aliases =
        [n \in (DOMAIN cfg.aliases) \ get_all_aliases(cfg, primary_name)
            |-> cfg.aliases[n]]]

Return(cfg, r) == [cfg EXCEPT !.ret = r]

add_command(cfg, name, command) ==
    Return(save(Bind(cfg, name, <<command>>)), "None")

update_command(cfg, name, command) ==
    LET primary_name == get_primary_name(cfg, name) IN
    IF ~is_valid_existing_name(primary_name, cfg.commands)
    THEN Return(cfg, "False")
    ELSE Return(save(Bind(cfg, primary_name, <<command>>)), "True")

delete_command(cfg, name) ==
    LET primary_name == get_primary_name(cfg, name) IN
    IF ~is_valid_existing_name(primary_name, cfg.commands)
    THEN Return(cfg, "False")
    ELSE LET c1 == remove_command_aliases(cfg, primary_name)
             c2 == Unbind(c1, primary_name)
         IN  Return(save(c2), "True")

\* variant: the list is stored without .copy(), one object under two keys
copy_command_samelist(cfg, old_name, new_name) ==
    IF ~is_valid_new_name(new_name, cfg.commands, cfg.aliases)
    THEN Return(cfg, "False")
    ELSE LET primary_name == get_primary_name(cfg, old_name) IN
         IF ~is_valid_existing_name(primary_name, cfg.commands)
         THEN Return(cfg, "False")
         ELSE Return(save([cfg EXCEPT
                  !.commands = Put(@, new_name, cfg.commands[primary_name]),
                  !.shared = @ \cup {{new_name, n} : n \in Sharers(cfg, primary_name)}]),
                     "True")

copy_command(cfg, old_name, new_name) ==
    IF ~is_valid_new_name(new_name, cfg.commands, cfg.aliases)
    THEN Return(cfg, "False")
    ELSE LET primary_name == get_primary_name(cfg, old_name) IN
         IF ~is_valid_existing_name(primary_name, cfg.commands)
         THEN Return(cfg, "False")
         ELSE Return(save(Bind(cfg, new_name, cfg.commands[primary_name])),
                     "True")

\* variant: aliases are repointed before the new name is validated
rename_command_early(cfg, old_name, new_name) ==
    LET old_primary == get_primary_name(cfg, old_name)
        c1 == [cfg EXCEPT !.aliases =
                  [n \in DOMAIN cfg.aliases |->
                     IF cfg.aliases[n] = old_primary
                     THEN new_name ELSE cfg.aliases[n]]]
    IN
    IF ~is_valid_existing_name(old_primary, cfg.commands)
    THEN Return(cfg, "False")
    ELSE IF ~is_valid_new_name(new_name, cfg.commands, cfg.aliases)
    THEN Return(c1, "False")
    ELSE Return(save([c1 EXCEPT !.commands =
                   Put(Del(@, old_primary), new_name, cfg.commands[old_primary])]),
                "True")

\* variant: the sequence moves but the aliases keep their old target
rename_command_norepoint(cfg, old_name, new_name) ==
    LET old_primary == get_primary_name(cfg, old_name) IN
    IF \/ ~is_valid_existing_name(old_primary, cfg.commands)
       \/ ~is_valid_new_name(new_name, cfg.commands, cfg.aliases)
    THEN Return(cfg, "False")
    ELSE Return(save([cfg EXCEPT !.commands =
                   Put(Del(@, old_primary), new_name, cfg.commands[old_primary])]),
                "True")

rename_command(cfg, old_name, new_name) ==
    LET old_primary == get_primary_name(cfg, old_name) IN
    IF \/ ~is_valid_existing_name(old_primary, cfg.commands)
       \/ ~is_valid_new_name(new_name, cfg.commands, cfg.aliases)
    THEN Return(cfg, "False")
    ELSE LET c1 == [cfg EXCEPT !.aliases =
                       [n \in DOMAIN cfg.aliases |->
                          IF cfg.aliases[n] = old_primary
                          THEN new_name ELSE cfg.aliases[n]]]
             c2 == Rebind(c1, old_primary, new_name)
         IN  Return(save(c2), "True")

\* variant: insert(0, command) instead of append(command)
append_command_front(cfg, name, command) ==
    LET primary_name == get_primary_name(cfg, name) IN
    IF ~is_valid_existing_name(primary_name, cfg.commands)
    THEN Return(cfg, "False")
    ELSE Return(save([cfg EXCEPT !.commands[primary_name] = <<command>> \o @]),
                "True")

append_command(cfg, name, command) ==
    LET primary_name == get_primary_name(cfg, name) IN
    IF ~is_valid_existing_name(primary_name, cfg.commands)
    THEN Return(cfg, "False")
    ELSE Return(save(MutateList(cfg, primary_name,
                                Append(cfg.commands[primary_name], command))),
                "True")

\* variant: the emptied sequence is saved instead of deleted
pop_command_keep(cfg, name) ==
    LET primary_name == get_primary_name(cfg, name) IN
    IF \/ ~is_valid_existing_name(primary_name, cfg.commands)
       \/ Len(cfg.commands[primary_name]) = 0
    THEN Return(cfg, "False")
    ELSE Return(save([cfg EXCEPT !.commands[primary_name] =
                                     SubSeq(@, 1, Len(@) - 1)]), "True")

\* variant: the emptying pop saves again after the nested delete
pop_command_resave(cfg, name) ==
    LET primary_name == get_primary_name(cfg, name) IN
    IF \/ ~is_valid_existing_name(primary_name, cfg.commands)
       \/ Len(cfg.commands[primary_name]) = 0
    THEN Return(cfg, "False")
    ELSE LET c1 == [cfg EXCEPT !.commands[primary_name] =
                                   SubSeq(@, 1, Len(@) - 1)]
         IN  IF Len(c1.commands[primary_name]) = 0
             THEN Return(save(delete_command(c1, primary_name)), "True")
             ELSE Return(save(c1), "True")

pop_command(cfg, name) ==
    LET primary_name == get_primary_name(cfg, name) IN
    IF \/ ~is_valid_existing_name(primary_name, cfg.commands)
       \/ Len(cfg.commands[primary_name]) = 0
    THEN Return(cfg, "False")
    ELSE LET c1 == MutateList(cfg, primary_name,
                       SubSeq(cfg.commands[primary_name], 1,
                              Len(cfg.commands[primary_name]) - 1))
         IN  IF Len(c1.commands[primary_name]) = 0
             THEN Return(delete_command(c1, primary_name), "True")
             ELSE Return(save(c1), "True")

\* variant: the alias stores the name it was given, not the resolved primary
add_alias_unresolved(cfg, command_name, alias) ==
    LET primary_name == get_primary_name(cfg, command_name) IN
    IF \/ ~is_valid_existing_name(primary_name, cfg.commands)
       \/ ~is_valid_new_name(alias, cfg.commands, cfg.aliases)
    THEN Return(cfg, "False")
    ELSE Return(save([cfg EXCEPT !.aliases = Put(@, alias, command_name)]), "True")

add_alias(cfg, command_name, alias) ==
    LET primary_name == get_primary_name(cfg, command_name) IN
    IF \/ ~is_valid_existing_name(primary_name, cfg.commands)
       \/ ~is_valid_new_name(alias, cfg.commands, cfg.aliases)
    THEN Return(cfg, "False")
    ELSE Return(save([cfg EXCEPT !.aliases = Put(@, alias, primary_name)]), "True")

remove_alias(cfg, command_name, alias) ==
    LET primary_name == get_primary_name(cfg, command_name) IN
    IF \/ ~is_valid_existing_name(primary_name, cfg.commands)
       \/ alias \notin DOMAIN cfg.aliases
       \/ cfg.aliases[alias] # primary_name
    THEN Return(cfg, "False")
    ELSE Return(save([cfg EXCEPT !.aliases = Del(@, alias)]), "True")

\* Optional[List[str]]: None is modelled as the record [found |-> FALSE]
NotFound == [found |-> FALSE, cmds |-> <<>>]

get_command(cfg, name) ==
    LET primary_name == get_primary_name(cfg, name) IN
    IF primary_name \in DOMAIN cfg.commands
    THEN [found |-> TRUE, cmds |-> cfg.commands[primary_name]]
    ELSE NotFound

----------------------------------------------------------------------------
(* The store seen by a caller holding one Config object *)

Cfg == [commands |-> commands, aliases |-> aliases, shared |-> shared,
        file |-> file, writes |-> 0, ret |-> "None", exit |-> 0,
        raised |-> ""]

\* no saved sequence is being run
NoRun == [status |-> "idle", cmds |-> <<>>, args |-> <<>>, pc |-> 0,
          log |-> <<>>, exit |-> 0]

\* the invocations of the tool that share the file
Procs == {1, 2}

\* no invocation has started
NoProcs == [p \in Procs |-> [pc |-> "start"]]

Init ==
    /\ commands = EmptyMap
    /\ aliases = EmptyMap
    /\ shared = {}
    /\ run = NoRun
    /\ procs = NoProcs
    /\ file = save_data(EmptyMap, EmptyMap)
    /\ last = [op |-> "init", name |-> "", arg |-> "", ret |-> "None",
               writes |-> 0, exit |-> 0]

\* The longest sequence a call leaves behind stays within the model's bound
WithinBounds(r) ==
    \A n \in DOMAIN r.commands : Len(r.commands[n]) <= MaxSeqLen

\* last records the verb, its result and, for a call that went through, its
\* arguments
Apply(op, name, arg, r) ==
    /\ WithinBounds(r)
    /\ commands' = r.commands
    /\ aliases' = r.aliases
    /\ shared' = r.shared
    /\ UNCHANGED <<run, procs>>
    /\ file' = r.file
    /\ last' = IF r.ret = "False" \/ r.exit # 0
               THEN [op |-> op, name |-> "", arg |-> "", ret |-> r.ret,
                     writes |-> r.writes, exit |-> r.exit]
               ELSE [op |-> op, name |-> name, arg |-> arg, ret |-> r.ret,
                     writes |-> r.writes, exit |-> r.exit]

Add == \E name \in UserNames, command \in Cmds :
    Apply("add", name, command, add_command(Cfg, name, command))

Update == \E name \in UserNames, command \in Cmds :
    Apply("update", name, command, update_command(Cfg, name, command))

Delete == \E name \in UserNames :
    Apply("delete", name, "", delete_command(Cfg, name))

Copy == \E old_name \in UserNames, new_name \in UserNames :
    Apply("copy", old_name, new_name, copy_command(Cfg, old_name, new_name))

Rename == \E old_name \in UserNames, new_name \in UserNames :
    Apply("rename", old_name, new_name, rename_command(Cfg, old_name, new_name))

AppendCmd == \E name \in UserNames, command \in Cmds :
    Apply("append", name, command, append_command(Cfg, name, command))

Pop == \E name \in UserNames :
    Apply("pop", name, "", pop_command(Cfg, name))

AddAlias == \E command_name \in UserNames, alias \in UserNames :
    Apply("add_alias", command_name, alias, add_alias(Cfg, command_name, alias))

RemoveAlias == \E command_name \in UserNames, alias \in UserNames :
    Apply("remove_alias", command_name, alias,
          remove_alias(Cfg, command_name, alias))

Next ==
    \/ Add
    \/ Update
    \/ Delete
    \/ Copy
    \/ Rename
    \/ AppendCmd
    \/ Pop
    \/ AddAlias
    \/ RemoveAlias

Spec == Init /\ [][Next]_vars

----------------------------------------------------------------------------
(* EzCLI.get_command: the built-in verbs.  Every invocation of the tool is a *)
(* new process: it builds Config() from the file, runs one handler, exits.   *)
(* The file is here always one that save_data wrote, so Config() loads it.   *)

SysExit(cfg, code) == [cfg EXCEPT !.exit = code]

\* a handler that reports the Config method's result
Report(r) == IF r.ret = "False" THEN SysExit(r, 1) ELSE r

\* variant: the reserved-name check is missing
cli_save_unchecked(cfg, name, command) == add_command(cfg, name, command)

cli_save(cfg, name, command) ==
    IF name \in RESERVED_COMMANDS THEN SysExit(cfg, 1)
    ELSE add_command(cfg, name, command)

cli_update(cfg, name, command) ==
    IF name \in RESERVED_COMMANDS THEN SysExit(cfg, 1)
    ELSE Report(update_command(cfg, name, command))

cli_delete(cfg, name) ==
    IF name \in RESERVED_COMMANDS THEN SysExit(cfg, 1)
    ELSE Report(delete_command(cfg, name))

cli_rename(cfg, old_name, new_name) ==
    IF new_name \in RESERVED_COMMANDS THEN SysExit(cfg, 1)
    ELSE Report(rename_command(cfg, old_name, new_name))

cli_alias(cfg, delete, command_name, alias) ==
    IF alias \in RESERVED_COMMANDS THEN SysExit(cfg, 1)
    ELSE IF delete THEN Report(remove_alias(cfg, command_name, alias))
         ELSE Report(add_alias(cfg, command_name, alias))

cli_append(cfg, name, command) ==
    IF name \in RESERVED_COMMANDS THEN SysExit(cfg, 1)
    ELSE Report(append_command(cfg, name, command))

cli_pop(cfg, name) ==
    IF name \in RESERVED_COMMANDS THEN SysExit(cfg, 1)
    ELSE Report(pop_command(cfg, name))

cli_copy(cfg, old_name, new_name) ==
    IF old_name \in RESERVED_COMMANDS THEN SysExit(cfg, 1)
    ELSE IF new_name \in RESERVED_COMMANDS THEN SysExit(cfg, 1)
    ELSE Report(copy_command(cfg, old_name, new_name))

\* replay: history is the zsh history ([exists, cmds], oldest first, already
\* without blank and "ez " lines); choice 0 is 'q', choice i selects the
\* i-th most recent command
cli_replay(cfg, name, history, choice) ==
    IF name \in RESERVED_COMMANDS THEN SysExit(cfg, 1)
    ELSE IF ~history.exists THEN SysExit(cfg, 1)
    ELSE IF Len(history.cmds) = 0 THEN SysExit(cfg, 1)
    ELSE IF choice = 0 THEN SysExit(cfg, 0)
    ELSE add_command(cfg, name, history.cmds[Len(history.cmds) + 1 - choice])

\* The if/elif chain of get_command: the built-in verb a name selects, ""
\* when it selects none
builtin_verb(cmd_name) ==
    CASE cmd_name \in {"save", "s"}   -> "save"
      [] cmd_name \in {"update", "u"} -> "update"
      [] cmd_name \in {"delete", "d"} -> "delete"
      [] cmd_name \in {"rename", "r"} -> "rename"
      [] cmd_name \in {"alias", "a"}  -> "alias"
      [] cmd_name = "append"          -> "append"
      [] cmd_name = "pop"             -> "pop"
      [] cmd_name \in {"list", "ls"}  -> "list"
      [] cmd_name = "replay"          -> "replay"
      [] cmd_name = "install"         -> "install"
      [] cmd_name \in {"copy", "c"}   -> "copy"
      [] OTHER                        -> ""

\* EzCLI.get_command(ctx, cmd_name): a built-in verb, else the saved
\* sequence config.get_command finds (if it is not empty), else None
dispatch(cfg, cmd_name) ==
    IF builtin_verb(cmd_name) # ""
    THEN [kind |-> "builtin", verb |-> builtin_verb(cmd_name), cmds |-> <<>>]
    ELSE LET cmds == get_command(cfg, cmd_name) IN
         IF cmds.found /\ Len(cmds.cmds) > 0
         THEN [kind |-> "saved", verb |-> "", cmds |-> cmds.cmds]
         ELSE [kind |-> "none", verb |-> "", cmds |-> <<>>]

Histories ==
    {[exists |-> FALSE, cmds |-> <<>>],
     [exists |-> TRUE, cmds |-> <<>>],
     [exists |-> TRUE, cmds |-> <<"x", "y">>]}

CliSave == \E name \in Names, command \in Cmds :
    Apply("save", name, command, cli_save(Config(file), name, command))

CliUpdate == \E name \in Names, command \in Cmds :
    Apply("update", name, command, cli_update(Config(file), name, command))

CliDelete == \E name \in Names :
    Apply("delete", name, "", cli_delete(Config(file), name))

CliRename == \E old_name \in Names, new_name \in Names :
    Apply("rename", old_name, new_name,
          cli_rename(Config(file), old_name, new_name))

CliAlias == \E command_name \in Names, alias \in Names :
    Apply("alias", command_name, alias,
          cli_alias(Config(file), FALSE, command_name, alias))

CliAliasDelete == \E command_name \in Names, alias \in Names :
    Apply("alias -d", command_name, alias,
          cli_alias(Config(file), TRUE, command_name, alias))

CliAppend == \E name \in Names, command \in Cmds :
    Apply("append", name, command, cli_append(Config(file), name, command))

CliPop == \E name \in Names :
    Apply("pop", name, "", cli_pop(Config(file), name))

CliCopy == \E old_name \in Names, new_name \in Names :
    Apply("copy", old_name, new_name,
          cli_copy(Config(file), old_name, new_name))

CliReplay == \E name \in Names, history \in Histories :
    \E choice \in 0..Len(history.cmds) :
        Apply("replay", name, "", cli_replay(Config(file), name, history, choice))

NextCLI ==
    \/ CliSave
    \/ CliUpdate
    \/ CliDelete
    \/ CliRename
    \/ CliAlias
    \/ CliAliasDelete
    \/ CliAppend
    \/ CliPop
    \/ CliCopy
    \/ CliReplay

SpecCLI == Init /\ [][NextCLI]_vars

----------------------------------------------------------------------------
(* Loading: a process builds Config() from whatever config.json holds, saves *)
(* what it loaded, and a second Config() is built from the result.           *)

\* Command values found in a document: the legacy string, lists of 0..2
DocCommandValues ==
    {[str |-> "x"], [list |-> <<>>], [list |-> <<"x">>], [list |-> <<"x", "y">>]}

DocCommandMaps ==
    UNION {[D -> DocCommandValues] : D \in SUBSET {"greet", "hi"}}

DocAliasMaps ==
    UNION {[D -> {[str |-> "greet"]}] : D \in SUBSET {"copy"}}

\* JSON objects: with both keys, with one, and with a commands value that is
\* not an object
DocObjects ==
    {[commands |-> [obj |-> c], aliases |-> [obj |-> a]] :
        c \in DocCommandMaps, a \in DocAliasMaps}
    \cup {[commands |-> [obj |-> c]] : c \in DocCommandMaps}
    \cup {[aliases |-> [obj |-> a]] : a \in DocAliasMaps}
    \cup {[commands |-> [list |-> <<>>], aliases |-> [obj |-> a]] :
             a \in DocAliasMaps}

Documents ==
    {[kind |-> "absent"], [kind |-> "text"],
     [kind |-> "json", value |-> [list |-> <<>>]],
     [kind |-> "json", value |-> [str |-> "x"]],
     [kind |-> "json", value |-> [obj |-> EmptyMap]]}
    \cup {[kind |-> "json", value |-> [obj |-> o]] : o \in DocObjects}

\* A JSON object whose commands and aliases, where present, are objects
WellFormed(content) ==
    /\ content.kind = "json"
    /\ "obj" \in DOMAIN content.value
    /\ "commands" \in DOMAIN content.value.obj =>
          "obj" \in DOMAIN content.value.obj.commands
    /\ "aliases" \in DOMAIN content.value.obj =>
          "obj" \in DOMAIN content.value.obj.aliases

\* The names a well-formed document stores in the legacy string shape
Legacy(content) ==
    IF WellFormed(content) /\ "commands" \in DOMAIN content.value.obj
    THEN {n \in DOMAIN content.value.obj.commands.obj :
            "str" \in DOMAIN content.value.obj.commands.obj[n]}
    ELSE {}

InitLoad ==
    /\ commands = EmptyMap
    /\ aliases = EmptyMap
    /\ shared = {}
    /\ run = NoRun
    /\ procs = NoProcs
    /\ file \in Documents
    /\ last = [op |-> "start", name |-> "", arg |-> "", ret |-> "None",
               writes |-> 0, exit |-> 0, raised |-> "", legacy |-> {}]

\* An exception that escapes Config() ends the process with a traceback
Construct(op, legacy) ==
    LET cfg == Config(file) IN
    /\ commands' = cfg.commands
    /\ aliases' = cfg.aliases
    /\ shared' = cfg.shared
    /\ UNCHANGED <<run, procs>>
    /\ file' = cfg.file
    /\ last' = [op |-> op, name |-> "", arg |-> "", ret |-> "None",
                writes |-> cfg.writes,
                exit |-> IF cfg.raised = "" THEN 0 ELSE 1,
                raised |-> cfg.raised, legacy |-> legacy]

LoadConfig ==
    /\ last.op = "start"
    /\ Construct("load", Legacy(file))

SaveConfig ==
    /\ last.op = "load"
    /\ last.raised = ""
    /\ file' = save(Cfg).file
    /\ last' = [last EXCEPT !.op = "save", !.writes = save(Cfg).writes]
    /\ UNCHANGED <<commands, aliases, shared, run, procs>>

ReloadConfig ==
    /\ last.op = "save"
    /\ Construct("reload", last.legacy)

NextLoad ==
    \/ LoadConfig
    \/ SaveConfig
    \/ ReloadConfig

SpecLoad == InitLoad /\ [][NextLoad]_vars

----------------------------------------------------------------------------
(* Running a saved sequence: get_command falls through to saved_command,    *)
(* which formats and runs one entry per loop iteration.                     *)

MaxRunLen == 3

\* Command lines with {N} placeholders
RunCmds == {"true", "echo {0}", "cp {0} {1}"}

\* Arguments given after the name on the command line
RunArgs == {<<>>, <<"A">>, <<"A", "B">>}

\* What subprocess.run(...).returncode can be for a shell that exited
ReturnCodes == {0, 1, 2, 255}

RunSeqs == UNION {[1..k -> RunCmds] : k \in 1..MaxRunLen}

\* str.format's view of a command line: literal text and replacement fields
fields(cmd) ==
    CASE cmd = "true"       -> <<[lit |-> "true"]>>
      [] cmd = "echo {0}"   -> <<[lit |-> "echo "], [idx |-> 0]>>
      [] cmd = "cp {0} {1}" -> <<[lit |-> "cp "], [idx |-> 0],
                                 [lit |-> " "], [idx |-> 1]>>

\* cmd.format(*args): the pieces of the formatted line, or IndexError when a
\* field's index is not below len(args)
format(cmd, args) ==
    LET f == fields(cmd) IN
    IF \E i \in 1..Len(f) : "idx" \in DOMAIN f[i] /\ f[i].idx >= Len(args)
    THEN [raised |-> "IndexError", text |-> <<>>]
    ELSE [raised |-> "",
          text |-> [i \in 1..Len(f) |->
                      IF "idx" \in DOMAIN f[i] THEN args[f[i].idx + 1]
                      ELSE f[i].lit]]

Exited(r, code) == [r EXCEPT !.status = "exited", !.exit = code % 256]

\* variant: a failing entry ends the run with exit code 1
saved_command_step_exit1(r, returncode) ==
    LET formatted == format(r.cmds[r.pc], r.args) IN
    IF formatted.raised # "" THEN Exited(r, 1)
    ELSE LET r1 == [r EXCEPT !.log = Append(@, [text |-> formatted.text,
                                                rc |-> returncode])]
         IN  IF returncode # 0 THEN Exited(r1, 1)
             ELSE IF r.pc = Len(r.cmds) THEN Exited(r1, 0)
             ELSE [r1 EXCEPT !.pc = @ + 1]

\* variant: an entry that cannot be formatted is skipped
saved_command_step_skip(r, returncode) ==
    LET formatted == format(r.cmds[r.pc], r.args) IN
    IF formatted.raised # ""
    THEN IF r.pc = Len(r.cmds) THEN Exited(r, 1) ELSE [r EXCEPT !.pc = @ + 1]
    ELSE LET r1 == [r EXCEPT !.log = Append(@, [text |-> formatted.text,
                                                rc |-> returncode])]
         IN  IF returncode # 0 THEN Exited(r1, returncode)
             ELSE IF r.pc = Len(r.cmds) THEN Exited(r1, 0)
             ELSE [r1 EXCEPT !.pc = @ + 1]

\* One iteration of "for cmd in cmds": format, subprocess.run, sys.exit on a
\* non-zero return code or on IndexError; after the last entry the function
\* returns and the process exits 0
saved_command_step(r, returncode) ==
    LET formatted == format(r.cmds[r.pc], r.args) IN
    IF formatted.raised # "" THEN Exited(r, 1)
    ELSE LET r1 == [r EXCEPT !.log = Append(@, [text |-> formatted.text,
                                                rc |-> returncode])]
         IN  IF returncode # 0 THEN Exited(r1, returncode)
             ELSE IF r.pc = Len(r.cmds) THEN Exited(r1, 0)
             ELSE [r1 EXCEPT !.pc = @ + 1]

\* A store the tool wrote: one saved sequence and an alias for it
InitRun ==
    /\ commands \in [{"greet"} -> RunSeqs]
    /\ aliases = [n \in {"hi"} |-> "greet"]
    /\ shared = {}
    /\ file = save_data(commands, aliases)
    /\ last = [op |-> "init", name |-> "", arg |-> "", ret |-> "None",
               writes |-> 0, exit |-> 0]
    /\ run = NoRun
    /\ procs = NoProcs

\* ez NAME ARGS...: the name selects a saved sequence
RunStart == \E cmd_name \in {"greet", "hi", "copy"}, args \in RunArgs :
    LET selected == dispatch(Config(file), cmd_name) IN
    /\ run.status = "idle"
    /\ selected.kind = "saved"
    /\ run' = [status |-> "running", cmds |-> selected.cmds, args |-> args,
               pc |-> 1, log |-> <<>>, exit |-> 0]
    /\ UNCHANGED <<commands, aliases, shared, file, last, procs>>

RunStep == \E returncode \in ReturnCodes :
    /\ run.status = "running"
    /\ run' = saved_command_step(run, returncode)
    /\ UNCHANGED <<commands, aliases, shared, file, last, procs>>

NextRun ==
    \/ RunStart
    \/ RunStep

SpecRun == InitRun /\ [][NextRun]_vars

----------------------------------------------------------------------------
(* Two invocations of the tool on one file.  Each is a process of its own: *)
(* it builds its Config when cli.py is imported (a read of the file), runs *)
(* one handler on its in-memory maps, and the handler's save is            *)
(* Path.write_text: an open that truncates the file, then a write of the   *)
(* whole text at offset 0.  Nothing locks the file, so the two system      *)
(* calls of one save interleave with those of the other.                   *)

RaceNames == {"greet", "hi"}

\* the command lines of the two invocations
RaceCalls ==
    [verb : {"save", "update", "append"}, a : RaceNames, b : Cmds]
    \cup [verb : {"delete", "pop"}, a : RaceNames, b : {""}]
    \cup [verb : {"rename", "copy", "alias", "unalias"},
          a : RaceNames, b : RaceNames]

\* the handler a command line selects, applied to the invocation's Config
invoke(cfg, call) ==
    CASE call.verb = "save"    -> cli_save(cfg, call.a, call.b)
      [] call.verb = "update"  -> cli_update(cfg, call.a, call.b)
      [] call.verb = "append"  -> cli_append(cfg, call.a, call.b)
      [] call.verb = "delete"  -> cli_delete(cfg, call.a)
      [] call.verb = "pop"     -> cli_pop(cfg, call.a)
      [] call.verb = "rename"  -> cli_rename(cfg, call.a, call.b)
      [] call.verb = "copy"    -> cli_copy(cfg, call.a, call.b)
      [] call.verb = "alias"   -> cli_alias(cfg, FALSE, call.a, call.b)
      [] call.verb = "unalias" -> cli_alias(cfg, TRUE, call.a, call.b)

\* sum of the values of a function over the set S of its arguments
RECURSIVE SumOver(_, _)
SumOver(f, S) ==
    IF S = {} THEN 0
    ELSE LET x == CHOOSE y \in S : TRUE IN f[x] + SumOver(f, S \ {x})

\* len(json.dumps(s)) for a string without characters to escape
dumps_str(s) == Len(s) + 2

\* len of a list of strings as json.dumps(..., indent=2) prints it two levels
\* deep: "[", one line per entry indented by 6, "]" indented by 4
dumps_list(seq) ==
    IF Len(seq) = 0 THEN 2
    ELSE LET entry == [i \in 1..Len(seq) |-> 6 + dumps_str(seq[i])]
         IN  8 + SumOver(entry, 1..Len(seq)) + 2 * (Len(seq) - 1)

\* len of one of the two maps, one level deep: "{", one line per key
\* indented by 4, "}" indented by 2; width[k] is the length of key k's
\* printed value
dumps_map(width) ==
    IF DOMAIN width = {} THEN 2
    ELSE LET entry == [k \in DOMAIN width |-> 4 + dumps_str(k) + 2 + width[k]]
         IN  6 + SumOver(entry, DOMAIN width)
               + 2 * (Cardinality(DOMAIN width) - 1)

\* len(json.dumps({"commands": cmds, "aliases": als}, indent=2))
dumps_length(cmds, als) ==
    33 + dumps_map([n \in DOMAIN cmds |-> dumps_list(cmds[n])])
       + dumps_map([n \in DOMAIN als |-> dumps_str(als[n])])

\* open(..., "w"): the file exists and is empty
Truncated == [kind |-> "text", len |-> 0]

\* size of the file in characters
length(content) ==
    IF content.kind = "json"
    THEN LET loaded == load_data(content)
         IN  dumps_length(loaded.commands, loaded.aliases)
    ELSE content.len

\* write(text) at offset 0 of a file opened before: the text replaces the
\* start of the file and whatever lies beyond its end stays, which after a
\* complete document is not JSON
write_at_start(content, doc) ==
    IF length(content) <= length(doc) THEN doc
    ELSE [kind |-> "text", len |-> length(content)]

\* stores the tool has written
RaceStores ==
    {save_data(EmptyMap, EmptyMap),
     save_data([n \in {"greet"} |-> <<"x">>], EmptyMap),
     save_data([n \in {"greet"} |-> <<"x", "y">>],
               [n \in {"hi"} |-> "greet"])}

InitRace ==
    /\ file \in RaceStores
    /\ commands = load_data(file).commands
    /\ aliases = load_data(file).aliases
    /\ shared = {}
    /\ last = [op |-> "init", name |-> "", arg |-> "", ret |-> "None",
               writes |-> 0, exit |-> 0]
    /\ run = NoRun
    /\ procs = NoProcs

\* the invocations that have opened the file for writing
Savers == {q \in Procs : procs[q].pc = "writing"
                           \/ (procs[q].pc = "done" /\ procs[q].order > 0)}

\* cli.py is imported: config = Config()
RaceLoad(p) ==
    /\ procs[p].pc = "start"
    /\ LET cfg == Config(file) IN
       /\ file' = cfg.file
       /\ procs' = [procs EXCEPT ![p] =
                      [pc |-> "loaded", cfg |-> [cfg EXCEPT !.writes = 0],
                       origin |-> file, fresh |-> Savers = {}]]
    /\ UNCHANGED <<commands, aliases, shared, last, run>>

\* the handler runs on the invocation's own maps; when it saves, write_text
\* opens the file, which empties it
RaceCall(p) == \E call \in RaceCalls :
    /\ procs[p].pc = "loaded"
    /\ LET r == invoke(procs[p].cfg, call) IN
       /\ WithinBounds(r)
       /\ IF r.writes = 0
          THEN /\ file' = file
               /\ procs' = [procs EXCEPT ![p] =
                              [pc |-> "done", cfg |-> r, call |-> call,
                               origin |-> @.origin, fresh |-> @.fresh,
                               order |-> 0]]
          ELSE /\ file' = Truncated
               /\ procs' = [procs EXCEPT ![p] =
                              [pc |-> "writing", cfg |-> r, call |-> call,
                               origin |-> @.origin, fresh |-> @.fresh]]
    /\ UNCHANGED <<commands, aliases, shared, last, run>>

\* write_text writes the text and closes the file
RaceWrite(p) ==
    /\ procs[p].pc = "writing"
    /\ file' = write_at_start(file, procs[p].cfg.file)
    /\ procs' = [procs EXCEPT ![p] =
                   [pc |-> "done", cfg |-> @.cfg, call |-> @.call,
                    origin |-> @.origin, fresh |-> @.fresh,
                    order |-> 1 + Cardinality({q \in Procs :
                                 procs[q].pc = "done" /\ procs[q].order > 0})]]
    /\ UNCHANGED <<commands, aliases, shared, last, run>>

NextRace ==
    \/ \E p \in Procs : RaceLoad(p)
    \/ \E p \in Procs : RaceCall(p)
    \/ \E p \in Procs : RaceWrite(p)

SpecRace == InitRace /\ [][NextRace]_vars

----------------------------------------------------------------------------
(* Properties *)

TypeOK ==
    /\ DOMAIN commands \subseteq UserNames \cup Names
    /\ DOMAIN aliases \subseteq UserNames \cup Names

\* the Config object after the step
CfgNext == [commands |-> commands', aliases |-> aliases', shared |-> shared',
            file |-> file', writes |-> 0, ret |-> "None", exit |-> 0,
            raised |-> ""]

Found(seq) == [found |-> TRUE, cmds |-> seq]

\* C1: in every state reachable through the Config methods every alias
\* target is a key of the commands map.
C1_NoDanglingAlias ==
    \A n \in DOMAIN aliases : aliases[n] \in DOMAIN commands

\* a command with aliases was deleted, renamed or popped away while another
\* alias is still stored
C1_Witness ==
    /\ last.op \in {"delete", "rename", "pop"}
    /\ last.ret = "True"
    /\ DOMAIN aliases # {}

\* C2: no name is at once a key of the commands map and of the aliases map,
\* also after add(name, cmd) on a name that is an alias.
C2_NoNameBothCommandAndAlias ==
    (DOMAIN commands) \cap (DOMAIN aliases) = {}

\* C3: after any sequence of CLI verbs no reserved word is a key of the
\* commands map or of the aliases map.
C3_NoReservedStored ==
    ((DOMAIN commands) \cup (DOMAIN aliases)) \cap RESERVED_COMMANDS = {}

\* save was refused (it only ever fails on a reserved name) while commands
\* and aliases are stored
C3_Witness ==
    /\ last.op = "save"
    /\ last.exit = 1
    /\ DOMAIN commands # {}
    /\ DOMAIN aliases # {}

\* C4: add(name, cmd) immediately followed by get(name) returns [cmd].
C4_AddThenGet ==
    last.op = "add" => get_command(Cfg, last.name) = Found(<<last.arg>>)

\* C5: a call that returns False leaves the commands map, the aliases map and
\* the file as they were and writes nothing.
C5_FailureChangesNothing ==
    [][last'.ret = "False" =>
         /\ commands' = commands
         /\ aliases' = aliases
         /\ file' = file
         /\ last'.writes = 0]_vars

\* a rename failed on a store that holds commands and aliases
C5_Witness ==
    /\ last.op = "rename"
    /\ last.ret = "False"
    /\ DOMAIN commands # {}
    /\ DOMAIN aliases # {}

\* C6: after a successful rename(old, new) the aliases of new are the former
\* aliases of resolve(old), get(new) is the former sequence of resolve(old)
\* and get(resolve(old)) is not found.
C6_RenameKeepsAliases ==
    [][(last'.op = "rename" /\ last'.ret = "True") =>
         LET old_primary == get_primary_name(Cfg, last'.name) IN
         /\ get_all_aliases(CfgNext, last'.arg) = get_all_aliases(Cfg, old_primary)
         /\ get_command(CfgNext, last'.arg) = Found(commands[old_primary])
         /\ get_command(CfgNext, old_primary) = NotFound]_vars

\* a command that has an alias was renamed
C6_Witness ==
    /\ last.op = "rename"
    /\ last.ret = "True"
    /\ get_all_aliases(Cfg, last.arg) # {}

\* C7: after a successful delete(name) no alias targets the deleted primary
\* name and get of every alias that targeted it is not found.
C7_DeleteRemovesAliases ==
    [][(last'.op = "delete" /\ last'.ret = "True") =>
         LET primary_name == get_primary_name(Cfg, last'.name) IN
         /\ get_all_aliases(CfgNext, primary_name) = {}
         /\ \A n \in get_all_aliases(Cfg, primary_name) :
                get_command(CfgNext, n) = NotFound]_vars

\* C8: when get(name) is a one-element sequence, pop(name) succeeds and
\* removes the command, and get(name) is then not found.
C8_PopLastElement ==
    [][/\ \A n \in UserNames :
            Len(get_command(Cfg, n).cmds) = 1 => pop_command(Cfg, n).ret = "True"
       /\ (/\ last'.op = "pop"
           /\ last'.ret = "True"
           /\ Len(get_command(Cfg, last'.name).cmds) = 1) =>
              /\ get_primary_name(Cfg, last'.name) \notin DOMAIN commands'
              /\ get_command(CfgNext, last'.name) = NotFound]_vars

C10_SequencesNonEmpty ==
    \A n \in DOMAIN commands : Len(commands[n]) >= 1

\* a pop took the last element of a sequence and the command is gone
C10_Witness ==
    /\ last.op = "pop"
    /\ last.ret = "True"
    /\ last.writes = 1
    /\ get_command(Cfg, last.name) = NotFound

\* C11: after every successful Config call the document in the file equals
\* the maps in memory and the call wrote the file exactly once.
C11_SavedOnceInSync ==
    (last.op # "init" /\ last.ret # "False") =>
        /\ file = save_data(commands, aliases)
        /\ load_data(file).commands = commands
        /\ load_data(file).aliases = aliases
        /\ last.writes = 1

\* a pop emptied a sequence (nested delete) in a store that still holds
\* another command
C11_Witness ==
    /\ last.op = "pop"
    /\ last.ret = "True"
    /\ get_primary_name(Cfg, last.name) \notin DOMAIN commands
    /\ DOMAIN commands # {}

\* C17: no alias target is itself a key of the aliases map, so resolving
\* twice is resolving once.
C17_NoAliasChains ==
    /\ \A n \in DOMAIN aliases : aliases[n] \notin DOMAIN aliases
    /\ \A n \in UserNames :
          get_primary_name(Cfg, get_primary_name(Cfg, n)) = get_primary_name(Cfg, n)

\* an alias was added through a name that is itself an alias
C17_Witness ==
    /\ last.op = "add_alias"
    /\ last.ret = "True"
    /\ last.name \in DOMAIN aliases
    /\ last.arg \in DOMAIN aliases

\* C19: a pop that empties a sequence removes exactly the command of
\* resolve(name) and exactly the aliases that targeted it.
C19_EmptyingPopFrame ==
    [][LET primary_name == get_primary_name(Cfg, last'.name) IN
       (/\ last'.op = "pop"
        /\ last'.ret = "True"
        /\ primary_name \in DOMAIN commands
        /\ Len(commands[primary_name]) = 1) =>
           /\ commands' = Del(commands, primary_name)
           /\ aliases' = [n \in (DOMAIN aliases) \ get_all_aliases(Cfg, primary_name)
                             |-> aliases[n]]]_vars

\* a pop emptied a sequence while another command still has an alias of its
\* own
C19_Witness ==
    /\ last.op = "pop"
    /\ last.ret = "True"
    /\ last.writes = 1
    /\ get_command(Cfg, last.name) = NotFound
    /\ DOMAIN aliases # {}

\* C16: a successful copy(old, new) stores under new a sequence equal to that
\* of resolve(old), adds no alias and changes none; afterwards an append, pop,
\* update or delete changes or removes only the sequence of the name it
\* resolves, so it never reaches the other of the two sequences.
C16_CopyIsIndependent ==
    [][LET primary_name == get_primary_name(Cfg, last'.name) IN
       /\ (last'.op = "copy" /\ last'.ret = "True") =>
             /\ primary_name \in DOMAIN commands
             /\ last'.arg # primary_name
             /\ commands' = Put(commands, last'.arg, commands[primary_name])
             /\ get_all_aliases(CfgNext, last'.arg) = {}
             /\ aliases' = aliases
       /\ (last'.op \in {"append", "pop", "update", "delete"}
              /\ last'.ret = "True") =>
             \A n \in (DOMAIN commands) \ {primary_name} :
                 n \in DOMAIN commands' /\ commands'[n] = commands[n]]_vars

\* a copy was taken through an alias of the original
C16_Witness ==
    /\ last.op = "copy"
    /\ last.ret = "True"
    /\ last.name \in DOMAIN aliases
    /\ commands[last.arg] = commands[aliases[last.name]]

\* C20: after save n cmd succeeds, dispatching n on the command line selects
\* the saved sequence [cmd] and never a built-in verb.
C20_SavedNameIsRunnable ==
    (last.op = "save" /\ last.exit = 0) =>
        dispatch(Config(file), last.name) =
            [kind |-> "saved", verb |-> "", cmds |-> <<last.arg>>]

\* C12: a document that loads, also one in the legacy shape, gives the same
\* commands and aliases maps when it is loaded, saved and loaded again; a
\* legacy string value s is loaded as the one-element sequence [s].
C12_LoadSaveLoad ==
    [][/\ (last'.op = "load" /\ last'.raised = "") =>
             \A n \in last'.legacy :
                 /\ n \in DOMAIN commands'
                 /\ commands'[n] = <<file.value.obj.commands.obj[n].str>>
       /\ last'.op = "reload" =>
             /\ last'.raised = ""
             /\ commands' = commands
             /\ aliases' = aliases]_vars

\* a document with a legacy string value and an alias went through load,
\* save and load
C12_Witness ==
    /\ last.op = "reload"
    /\ last.legacy # {}
    /\ DOMAIN aliases # {}

\* C13: building Config() never raises; from a missing file, from text that
\* is not JSON and from JSON of another shape it yields the empty store.
C13_LoadNeverRaises ==
    last.op = "load" =>
        /\ last.raised = ""
        /\ (last.writes = 1 \/ ~WellFormed(file)) =>
               (commands = EmptyMap /\ aliases = EmptyMap)

\* The first entry of the running sequence that cannot be formatted with the
\* given arguments, 0 when every entry can
FirstUnformattable ==
    LET bad == {i \in 1..Len(run.cmds) :
                  format(run.cmds[i], run.args).raised # ""}
    IN  IF bad = {} THEN 0 ELSE CHOOSE i \in bad : \A j \in bad : i <= j

\* The entries run so far are the first entries of the sequence, in order,
\* each formatted with the arguments
LogIsPrefix(r) ==
    /\ Len(r.log) <= Len(r.cmds)
    /\ \A i \in 1..Len(r.log) :
          r.log[i].text = format(r.cmds[i], r.args).text

\* C14: the entries run one at a time in stored order; the first entry that
\* returns non-zero ends the run with that code and nothing runs after it;
\* what ran stays run; when every entry returns 0 the run exits 0.
C14_StopAtFirstFailure ==
    [][/\ LogIsPrefix(run')
       /\ Len(run'.log) <= Len(run.log) + 1
       /\ SubSeq(run'.log, 1, Len(run.log)) = run.log
       /\ \A i \in 1..(Len(run'.log) - 1) : run'.log[i].rc = 0
       /\ (Len(run'.log) > 0 /\ run'.log[Len(run'.log)].rc # 0) =>
             /\ run'.status = "exited"
             /\ run'.exit = run'.log[Len(run'.log)].rc
       /\ (/\ run'.status = "exited"
           /\ Len(run'.log) = Len(run'.cmds)
           /\ \A i \in 1..Len(run'.log) : run'.log[i].rc = 0) =>
             run'.exit = 0
       /\ run.status = "exited" => run' = run]_vars

\* the third entry returned 255 after two entries that returned 0
C14_Witness ==
    /\ run.status = "exited"
    /\ Len(run.log) = 3
    /\ run.log[3].rc = 255
    /\ run.exit = 255

\* C15 as stated: whenever some entry references an index beyond the
\* arguments, the run ends at the first such entry with exit code 1, the
\* entries before it having run.
C15_AbortAtMissingArgument ==
    (run.status = "exited" /\ FirstUnformattable # 0) =>
        /\ run.exit = 1
        /\ Len(run.log) = FirstUnformattable - 1
        /\ LogIsPrefix(run)

\* C15 amended: when the run reaches an entry that references an index beyond
\* the arguments (no entry before it returned non-zero), it ends there with
\* exit code 1; the entries before it ran in order and nothing runs later.
C15_AbortWhenReached ==
    [][/\ (/\ run'.status = "exited"
           /\ FirstUnformattable' # 0
           /\ \A i \in 1..Len(run'.log) : run'.log[i].rc = 0) =>
             /\ run'.exit = 1
             /\ Len(run'.log) = FirstUnformattable' - 1
             /\ LogIsPrefix(run')
       /\ run.status = "exited" => run' = run]_vars

\* two entries ran and the third lacked an argument
C15_Witness ==
    /\ run.status = "exited"
    /\ FirstUnformattable = 3
    /\ Len(run.log) = 2
    /\ run.exit = 1

\* both invocations loaded before either began to save, and both changed
\* the store and saved it
BothSavedFromEarlierLoad ==
    \A p \in Procs :
        /\ procs[p].pc = "done"
        /\ procs[p].fresh
        /\ procs[p].order > 0
        /\ procs[p].cfg.exit = 0

\* C18: when each of two invocations loads before the other saves and each
\* then saves, the file ends as the document of the one that saved last,
\* computed from its own load alone.
C18_LastWriterWins ==
    BothSavedFromEarlierLoad =>
        \E w \in Procs :
            /\ procs[w].order = Cardinality(Procs)
            /\ file = save_data(procs[w].cfg.commands, procs[w].cfg.aliases)
            /\ file = invoke(Config(procs[w].origin), procs[w].call).file

====
